---------------------------- MODULE Spec2Model ----------------------------
(***************************************************************************)
(* Model of the dispatch-and-delivery backend: the quote cache and order   *)
(* creation of the order service, and the assignment engine, the fleet     *)
(* status update, the tracking ledger and the pricing functions of the     *)
(* logistics service, at the granularity of one store call (one SQL        *)
(* statement, one guarded map access) per step.  Concurrent requests are   *)
(* the processes of Procs; every store call may fail.                      *)
(***************************************************************************)
EXTENDS Integers, Sequences, FiniteSets, TLC

VARIABLES
    machines,     \* machines table: machine id -> record
    orders,       \* orders table: order id -> record
    addresses,    \* addresses table: sequence of inserted rows
    routeCache,   \* Service.routeCache: quote id -> route option
    nextQuote,    \* number of ids handed out by uuid.NewString so far
    quoteRet,     \* what the last GetDeliveryQuote returned: [opts, err]
    everCached,   \* ids that were put into routeCache at some time
    call,         \* per request-handling goroutine: position, locals, result
    events,       \* tracking_events table: a set of rows
    clock,        \* the store's clock, read by created_at
    trackRet,     \* the last GetTracking: its arguments and what it returned
    costArgs,     \* arguments handed to the pricing functions
    costRet,      \* what the last pricing function called returned
    routes,       \* routes table: the rows inserted, oldest first
    payments      \* the payment collaborator: the charges captured, oldest first

vars == <<machines, orders, addresses, routeCache, nextQuote, quoteRet,
          everCached, call, events, clock, trackRet, costArgs, costRet, routes,
          payments>>

----------------------------------------------------------------------------
(* Bounds and identities *)

Procs == {"p1", "p2"}
Users == {"u1", "u2"}
MachineIds == {"m1", "m2"}
UnknownMachine == "mX"
\* orders that exist when the assignment engine starts
ExistingOrders == 2
\* order ids the requests may name; the last one names no order
OrderIds == 1..(ExistingOrders + 1)
\* ids uuid.NewString may hand out
MaxQuoteIds == 4
QuoteIds == 1..MaxQuoteIds
\* the bodies of the status requests tried
StatusRequests ==
    {[status |-> st, lat |-> 1, lon |-> 2] : st \in {"IDLE", "IN_TRANSIT", "CHARGING", "MAINTENANCE"}}

MachineStatuses == {"IDLE", "IN_TRANSIT", "CHARGING", "MAINTENANCE"}
StatusIdle == "IDLE"
StatusInTransit == "IN_TRANSIT"
NULL == "NULL"

----------------------------------------------------------------------------
(* Errors.  kind is what errors.Is / == can tell apart: a sentinel of      *)
(* package models, the driver's error carried by %w, or a bare             *)
(* fmt.Errorf text; ctx is the message prefix added on the way up.         *)

Nil == [kind |-> "nil", ctx |-> ""]
ErrNotFound == [kind |-> "ErrNotFound", ctx |-> ""]
ErrForbidden == [kind |-> "ErrForbidden", ctx |-> ""]
ErrRouteOptionExpired == [kind |-> "ErrRouteOptionExpired", ctx |-> ""]
ErrPackageTooLarge == [kind |-> "ErrPackageTooLarge", ctx |-> ""]
ErrNoIdleMachines == [kind |-> "errorString", ctx |-> "no idle machines available"]
DBError(ctx) == [kind |-> "driver", ctx |-> ctx]
Wrap(ctx, err) == [kind |-> err.kind, ctx |-> ctx]

NoMachine == [id |-> NULL, type |-> NULL, status |-> NULL, lat |-> 0, lon |-> 0, battery |-> 0]
NoOption == [id |-> 0]
\* no response written yet
NoResponse == [status |-> 0, message |-> "", order |-> 0]
NoReq == [status |-> NULL, lat |-> 0, lon |-> 0]
NoLeg == [err |-> Nil, distance |-> 0, duration |-> 0, polyline |-> "", gets |-> 0]
NoRoute == [id |-> 0, order |-> 0, polyline |-> "", distance |-> 0, duration |-> 0]

\* late is a history flag: the quote named had been consumed when the call began
IdleCall == [pc |-> "idle", op |-> NULL, oid |-> 0, qid |-> 0, uid |-> NULL,
             mid |-> NULL, m |-> NoMachine, opt |-> NoOption, req |-> NoReq,
             pickupID |-> 0, dropoffID |-> 0, late |-> FALSE,
             err |-> Nil, retM |-> NoMachine, retO |-> 0,
             maps |-> NoLeg, retR |-> NoRoute,
             cost |-> 0, paid |-> FALSE, updated |-> NULL,
             failed |-> FALSE, payCalls |-> 0, resp |-> NoResponse]

Done(p, c, err) == call' = [call EXCEPT ![p] = [c EXCEPT !.pc = "done", !.err = err]]

\* a call of the logistics repository returned err: the operation returns
\* what it makes of it; failed remembers that the store call did not succeed
StoreFailed(p, c, err) == Done(p, [c EXCEPT !.failed = TRUE], err)

----------------------------------------------------------------------------
(* Logistics repository *)

\* all orderings of a finite set: the rows of a SELECT without ORDER BY
RECURSIVE Perms(_)
Perms(S) ==
    IF S = {} THEN {<<>>}
    ELSE UNION {{<<x>> \o t : t \in Perms(S \ {x})} : x \in S}

MachineRow(id) == [id |-> id] @@ machines[id]

IdleFilterMut(id) == TRUE
IdleFilter(id) == machines[id].status = StatusIdle

\* Repository.ListIdleMachines: the rows WHERE status = 'IDLE', in any order
ListIdleMachines ==
    {[i \in DOMAIN s |-> MachineRow(s[i])] :
        s \in Perms({id \in MachineIds : IdleFilter(id)})}

\* Repository.AssignOrder: UPDATE orders SET machine_id, status WHERE id
RepoAssignOrder(os, orderID, machineID) ==
    [os EXCEPT ![orderID].machine = machineID, ![orderID].status = "IN_PROGRESS"]

RepoUpdateMachineStatusMut(ms, machineID, status) ==
    [id \in DOMAIN ms |-> [ms[id] EXCEPT !.status = status]]
\* Repository.UpdateMachineStatus: UPDATE machines SET status WHERE id
RepoUpdateMachineStatus(ms, machineID, status) ==
    [ms EXCEPT ![machineID].status = status]

RowsAffectedMut(table, id) == 1
\* cmd.RowsAffected() of an UPDATE ... WHERE id = $1
RowsAffected(table, id) == IF id \in DOMAIN table THEN 1 ELSE 0

RepoUpdateMachineMut(ms, m) ==
    [ms EXCEPT ![m.id] = [type |-> ms[m.id].type, status |-> m.status,
                          lat |-> m.lat, lon |-> m.lon, battery |-> 100]]
\* Repository.UpdateMachine: UPDATE machines SET status, location, battery
RepoUpdateMachine(ms, m) ==
    [ms EXCEPT ![m.id] = [type |-> ms[m.id].type, status |-> m.status,
                          lat |-> m.lat, lon |-> m.lon, battery |-> m.battery]]

----------------------------------------------------------------------------
(* Logistics service: AssignOrder *)

UnchangedLedger == UNCHANGED <<events, clock, trackRet>>
UnchangedPricing == UNCHANGED <<costArgs, costRet>>
UnchangedRoutes == UNCHANGED routes
UnchangedPayments == UNCHANGED payments

UnchangedQuote ==
    /\ UNCHANGED <<addresses, routeCache, nextQuote, quoteRet, everCached>>
    /\ UnchangedLedger
    /\ UnchangedPricing
    /\ UnchangedRoutes
    /\ UnchangedPayments

\* the errors of the three store calls of AssignOrder, as the repository wraps them
ErrListFailed == Wrap("ListIdleMachines failed", DBError(""))
ErrAssignFailed == Wrap("AssignOrder failed", DBError(""))
ErrStatusFailedMut == Nil
ErrStatusFailed == Wrap("UpdateMachineStatus failed", DBError(""))

\* service.AssignOrder, lines 72-79, for the call c: list the idle machines,
\* take the first
AO_ListFor(p, c) ==
    \/ StoreFailed(p, c, ErrListFailed)
    \/ \E ms \in ListIdleMachines :
         IF Len(ms) = 0
         THEN Done(p, c, ErrNoIdleMachines)
         ELSE call' = [call EXCEPT ![p] = [c EXCEPT !.pc = "ao_assign", !.m = ms[1]]]

\* service.AssignOrder called on its own
AO_List(p) ==
    /\ call[p].pc = "idle"
    /\ \E orderID \in OrderIds :
         AO_ListFor(p, [call[p] EXCEPT !.op = "AssignOrder", !.oid = orderID])
    /\ UNCHANGED <<machines, orders>>
    /\ UnchangedQuote

\* service.AssignOrder, lines 80-82: bind the order to the machine
AO_Assign(p) ==
    /\ call[p].pc = "ao_assign"
    /\ LET c == call[p] IN
       \/ /\ StoreFailed(p, c, ErrAssignFailed)
          /\ UNCHANGED orders
       \/ IF RowsAffected(orders, c.oid) # 0
          THEN /\ orders' = RepoAssignOrder(orders, c.oid, c.m.id)
               /\ call' = [call EXCEPT ![p].pc = "ao_status"]
          ELSE /\ StoreFailed(p, c, ErrNotFound)
               /\ UNCHANGED orders
    /\ UNCHANGED machines
    /\ UnchangedQuote

\* service.AssignOrder, lines 83-87: set the machine in transit, return it
AO_Status(p) ==
    /\ call[p].pc = "ao_status"
    /\ LET c == call[p] IN
       \/ /\ StoreFailed(p, c, ErrStatusFailed)
          /\ UNCHANGED machines
       \/ IF RowsAffected(machines, c.m.id) # 0
          THEN /\ machines' = RepoUpdateMachineStatus(machines, c.m.id, StatusInTransit)
               /\ call' = [call EXCEPT ![p] =
                             [c EXCEPT !.pc = "done", !.err = Nil,
                                       !.retM = [c.m EXCEPT !.status = StatusInTransit]]]
          ELSE /\ StoreFailed(p, c, ErrNotFound)
               /\ UNCHANGED machines
    /\ UNCHANGED orders
    /\ UnchangedQuote

----------------------------------------------------------------------------
(* Logistics service: SetMachineStatus *)

ErrFindFailed == Wrap("FindMachineByID failed", DBError(""))
ErrUpdateFailed == Wrap("UpdateMachine failed", DBError(""))

\* Repository.FindMachineByID as SetMachineStatus calls it, for the call c
FindMachineByID(p, c) ==
    \/ StoreFailed(p, c, ErrFindFailed)
    \/ IF c.mid \in DOMAIN machines
       THEN call' = [call EXCEPT ![p] = [c EXCEPT !.pc = "sm_update", !.m = MachineRow(c.mid)]]
       ELSE StoreFailed(p, c, ErrNotFound)

\* service.SetMachineStatus, lines 59-62: fetch the current record
SM_Find(p) ==
    /\ call[p].pc = "idle"
    /\ \E machineID \in MachineIds \cup {UnknownMachine},
          req \in StatusRequests :
         LET c == [call[p] EXCEPT !.op = "SetMachineStatus", !.mid = machineID, !.req = req] IN
         FindMachineByID(p, c)
    /\ UNCHANGED <<machines, orders>>
    /\ UnchangedQuote

\* validateMachineStatus of the handler
StatusMaintenance == "MAINTENANCE"
ErrInvalidStatus == [kind |-> "errorString", ctx |-> "invalid machine status"]
validateMachineStatus(status) ==
    IF status \in {StatusIdle, StatusInTransit, StatusMaintenance} THEN Nil ELSE ErrInvalidStatus

\* the request bodies the handler is sent: every status of the enumeration,
\* a word outside it and the empty word
HandlerBodies ==
    {[status |-> st, lat |-> 1, lon |-> 2] : st \in MachineStatuses \cup {"BROKEN", ""}}

\* Handler.SetMachineStatus, lines 77-89: validate the status, then enter the
\* service; a rejected body is answered 400 and the service is not called
H_SetMachineStatus(p) ==
    /\ call[p].pc = "idle"
    /\ \E machineID \in MachineIds \cup {UnknownMachine},
          body \in HandlerBodies :
         LET c == [call[p] EXCEPT !.op = "Handler.SetMachineStatus", !.mid = machineID, !.req = body] IN
         IF validateMachineStatus(body.status) # Nil
         THEN Done(p, c, [kind |-> "http400", ctx |-> validateMachineStatus(body.status).ctx])
         ELSE FindMachineByID(p, c)
    /\ UNCHANGED <<machines, orders>>
    /\ UnchangedQuote

\* service.SetMachineStatus, lines 63-67: overwrite status and position, persist
SM_Update(p) ==
    /\ call[p].pc = "sm_update"
    /\ LET c == call[p]
           m == [c.m EXCEPT !.status = c.req.status, !.lat = c.req.lat, !.lon = c.req.lon] IN
       \/ /\ StoreFailed(p, c, ErrUpdateFailed)
          /\ UNCHANGED machines
       \/ /\ machines' = RepoUpdateMachine(machines, m)
          /\ Done(p, c, Nil)
    /\ UNCHANGED orders
    /\ UnchangedQuote

\* the request is answered; the goroutine serves the next one
Return(p) ==
    /\ call[p].pc = "done"
    /\ call' = [call EXCEPT ![p] = IdleCall]
    /\ UNCHANGED <<machines, orders>>
    /\ UnchangedQuote

----------------------------------------------------------------------------
(* The assignment engine on a seeded fleet and two existing orders *)

SeedMachines ==
    [id \in MachineIds |->
        IF id = "m1"
        THEN [type |-> "DRONE", status |-> StatusIdle, lat |-> 0, lon |-> 0, battery |-> 95]
        ELSE [type |-> "ROBOT", status |-> StatusIdle, lat |-> 0, lon |-> 0, battery |-> 88]]

DefaultCost == 1575

NewOrder(userID, pickupID, dropoffID) ==
    [user |-> userID, status |-> "PENDING_PAYMENT", machine |-> NULL,
     pickup |-> pickupID, dropoff |-> dropoffID, cost |-> DefaultCost]

\* no tracking event recorded, no query answered yet
InitLedgerEmpty ==
    /\ events = {}
    /\ clock = 0
    /\ trackRet = [order |-> 0, since |-> 0, evs |-> <<>>, err |-> Nil]

NoCostArgs == [distance |-> 0, duration |-> 0, machineType |-> NULL, peak |-> FALSE,
               at |-> [zero |-> TRUE, hour |-> 0, minute |-> 0]]
NoCostRet == [fn |-> NULL, peak |-> FALSE, cost |-> 0]
InitPricingIdle ==
    /\ costArgs = NoCostArgs
    /\ costRet = NoCostRet

\* before the first quote: no request, nothing returned
NoQuote ==
    [req |-> [pickup |-> NULL, delivery |-> NULL, weight |-> 0, length |-> 0, width |-> 0,
              height |-> 0, requestedTime |-> [zero |-> TRUE, hour |-> 0, minute |-> 0]],
     maps |-> [status |-> NULL, distance |-> 0, duration |-> 0, polyline |-> ""],
     mapsCalls |-> 0, opts |-> <<>>, err |-> Nil]

\* NewService of the order service: an empty cache, nothing quoted
InitCacheEmpty ==
    /\ addresses = <<>>
    /\ routeCache = <<>>
    /\ nextQuote = 0
    /\ quoteRet = NoQuote
    /\ everCached = {}

\* no route computed yet
InitRoutesEmpty == routes = <<>>
\* no charge captured yet
InitPaymentsEmpty == payments = <<>>

InitQuoteEmpty ==
    /\ InitCacheEmpty
    /\ InitLedgerEmpty
    /\ InitPricingIdle
    /\ InitRoutesEmpty
    /\ InitPaymentsEmpty

InitAssign ==
    /\ machines = SeedMachines
    /\ \E st \in [1..ExistingOrders -> {"PENDING_PAYMENT", "CONFIRMED"}] :
         orders = [o \in 1..ExistingOrders |->
                     [NewOrder("u1", 0, 0) EXCEPT !.status = st[o]]]
    /\ call = [p \in Procs |-> IdleCall]
    /\ InitQuoteEmpty

NextAssign ==
    \E p \in Procs :
       \/ AO_List(p)
       \/ AO_Assign(p)
       \/ AO_Status(p)
       \/ Return(p)

SpecAssign == InitAssign /\ [][NextAssign]_vars

----------------------------------------------------------------------------
(* The fleet status update on the seeded fleet: called directly and        *)
(* through its handler                                                     *)

InitStatus ==
    /\ machines = SeedMachines
    /\ orders = <<>>
    /\ call = [p \in Procs |-> IdleCall]
    /\ InitQuoteEmpty

NextStatus ==
    \E p \in Procs :
       \/ SM_Find(p)
       \/ H_SetMachineStatus(p)
       \/ SM_Update(p)
       \/ Return(p)

SpecStatus == InitStatus /\ [][NextStatus]_vars

----------------------------------------------------------------------------
(* Tracking ledger: ReportTracking and GetTracking.  Instants are ticks of *)
(* the store's clock; 0 is the zero time, before every event.              *)

\* tracking events the ledger may hold, and the last instant of the clock
MaxEvents == 4
MaxClock == 4
Instants == 0..MaxClock
TrackedOrders == {1, 2}
\* the body of the reports tried
ReportRequests == {[machine |-> "m1", lat |-> 3, lon |-> 4]}

\* created_at of a new row: the store's clock at the insert
CreatedAt(now) == now

CreateTrackingEventMut(evs, orderID, req, now) ==
    {[id |-> 1, order |-> orderID, machine |-> req.machine,
      lat |-> req.lat, lon |-> req.lon, createdAt |-> CreatedAt(now)]}
\* Repository.CreateTrackingEvent: INSERT INTO tracking_events ... RETURNING
CreateTrackingEvent(evs, orderID, req, now) ==
    evs \cup {[id |-> Cardinality(evs) + 1, order |-> orderID, machine |-> req.machine,
               lat |-> req.lat, lon |-> req.lon, createdAt |-> CreatedAt(now)]}

AfterSinceMut(e, since) == e.createdAt >= since
\* created_at > $2
AfterSince(e, since) == e.createdAt > since

\* Repository.ListTrackingEvents: the rows WHERE order_id = $1 AND
\* created_at > $2 ORDER BY created_at; rows of equal created_at in any order
ListTrackingEvents(evs, orderID, since) ==
    LET rows == {e \in evs : e.order = orderID /\ AfterSince(e, since)} IN
    {s \in Perms(rows) :
        \A i, j \in DOMAIN s : i < j => s[i].createdAt <= s[j].createdAt}

ErrListEventsFailed == Wrap("ListTrackingEvents failed", DBError(""))
ErrCreateEventFailed == DBError("")

\* service.ReportTracking: one insert; each insert is a transaction of its
\* own and reads a later instant than the one before it
ReportTracking(p) ==
    /\ call[p].pc = "idle"
    /\ Cardinality(events) < MaxEvents
    /\ \E orderID \in TrackedOrders, req \in ReportRequests :
         LET c == [call[p] EXCEPT !.op = "ReportTracking", !.oid = orderID, !.req = req] IN
         \/ /\ StoreFailed(p, c, ErrCreateEventFailed)
            /\ UNCHANGED <<events, clock>>
         \/ \E now \in Instants :
              /\ now > clock
              /\ events' = CreateTrackingEvent(events, orderID, req, now)
              /\ clock' = now
              /\ Done(p, c, Nil)
    /\ UNCHANGED <<machines, orders, trackRet>>
    /\ UNCHANGED <<addresses, routeCache, nextQuote, quoteRet, everCached>>
    /\ UnchangedPricing
    /\ UnchangedRoutes
    /\ UnchangedPayments

\* service.GetTracking: one query
GetTracking(p) ==
    /\ call[p].pc = "idle"
    /\ \E orderID \in TrackedOrders, since \in Instants :
         LET c == [call[p] EXCEPT !.op = "GetTracking", !.oid = orderID] IN
         \/ /\ StoreFailed(p, c, ErrListEventsFailed)
            /\ trackRet' = [order |-> orderID, since |-> since, evs |-> <<>>,
                            err |-> ErrListEventsFailed]
         \/ \E evs \in ListTrackingEvents(events, orderID, since) :
              /\ Done(p, c, Nil)
              /\ trackRet' = [order |-> orderID, since |-> since, evs |-> evs, err |-> Nil]
    /\ UNCHANGED <<machines, orders, events, clock>>
    /\ UNCHANGED <<addresses, routeCache, nextQuote, quoteRet, everCached>>
    /\ UnchangedPricing
    /\ UnchangedRoutes
    /\ UnchangedPayments

InitTrack ==
    /\ machines = SeedMachines
    /\ orders = <<>>
    /\ call = [p \in Procs |-> IdleCall]
    /\ InitQuoteEmpty

NextTrack ==
    \E p \in Procs :
       \/ ReportTracking(p)
       \/ GetTracking(p)
       \/ Return(p)

SpecTrack == InitTrack /\ [][NextTrack]_vars

----------------------------------------------------------------------------
(* Pricing and routing: CalculateRouteOptions and its helpers.  Weights in *)
(* units of 0.1 kg, lengths in cm, money in cents.                         *)

DroneMaxWeight == 30
DroneMaxDim == 50
RobotMaxWeight == 100
RobotMaxDim == 100

\* isPeakHour: only the hour of the instant is looked at; a zero time is now
isPeakHour(requestedTime, now) ==
    LET t == IF requestedTime.zero THEN now ELSE requestedTime
        h == t.hour IN
    (h >= 8 /\ h <= 10) \/ (h >= 17 /\ h <= 19)

costMilliMut(distanceMeters, durationSeconds, machineType, peak) ==
    (IF machineType = "DRONE" THEN 200000 ELSE 100000) + 50 * distanceMeters + durationSeconds
\* computeCost before its rounding, in thousandths of a cent:
\* price = base + perKm * km, times 1.2 if peak
costMilli(distanceMeters, durationSeconds, machineType, peak) ==
    LET base == IF machineType = "DRONE" THEN 200 ELSE 100
        perKm == IF machineType = "DRONE" THEN 50 ELSE 30
        milli == base * 1000 + perKm * distanceMeters IN
    IF peak THEN (milli * 12) \div 10 ELSE milli

computeCostMut(distanceMeters, durationSeconds, machineType, peak) ==
    costMilli(distanceMeters, durationSeconds, machineType, peak) \div 1000 + 1
\* computeCost in cents: (base + perKm * km) * 1.2 if peak, rounded half away
computeCost(distanceMeters, durationSeconds, machineType, peak) ==
    (costMilli(distanceMeters, durationSeconds, machineType, peak) + 500) \div 1000

\* what computeCost can return: the price is a float64, so a price that lies
\* exactly between two cents is held a little below or above the half, and
\* math.Round(price*100) gives the cent below or the cent above
computeCostOutcomes(distanceMeters, durationSeconds, machineType, peak) ==
    LET m == costMilli(distanceMeters, durationSeconds, machineType, peak) IN
    IF m % 1000 = 500
    THEN {m \div 1000, m \div 1000 + 1}
    ELSE {computeCost(distanceMeters, durationSeconds, machineType, peak)}

\* what the maps API can answer one GET: nothing (unreachable), a body
\* without routes, or a body whose first route has one leg
MapsAnswers ==
    {[status |-> "unreachable", distance |-> 0, duration |-> 0, polyline |-> ""],
     [status |-> "empty", distance |-> 0, duration |-> 0, polyline |-> ""],
     [status |-> "route", distance |-> 1000, duration |-> 600, polyline |-> "abc"]}

ErrMapsGet == [kind |-> "http", ctx |-> ""]
ErrNoRouteData == [kind |-> "errorString", ctx |-> "no route data"]

\* service.callGoogleMaps: one GET, no retry; the first leg of the first route
callGoogleMapsMut(ans) ==
    [err |-> IF ans.status = "unreachable" THEN ErrMapsGet ELSE Nil,
     distance |-> ans.distance, duration |-> ans.duration,
     polyline |-> ans.polyline, gets |-> 1]

callGoogleMaps(ans) ==
    IF ans.status = "unreachable"
    THEN [err |-> ErrMapsGet, distance |-> 0, duration |-> 0, polyline |-> "", gets |-> 1]
    ELSE IF ans.status = "empty"
    THEN [err |-> ErrNoRouteData, distance |-> 0, duration |-> 0, polyline |-> "", gets |-> 1]
    ELSE [err |-> Nil, distance |-> ans.distance, duration |-> ans.duration,
          polyline |-> ans.polyline, gets |-> 1]

\* service.CalculateRouteOptions, lines 102-105: the ground-machine envelope
tooLarge(req) ==
    \/ req.weight > RobotMaxWeight
    \/ req.length > RobotMaxDim
    \/ req.width > RobotMaxDim
    \/ req.height > RobotMaxDim

\* service.CalculateRouteOptions, lines 109-112: the aerial envelope
useDroneMut(req) == TRUE

useDrone(req) ==
    /\ req.weight <= DroneMaxWeight
    /\ req.length <= DroneMaxDim
    /\ req.width <= DroneMaxDim
    /\ req.height <= DroneMaxDim

\* service.CalculateRouteOptions, lines 115-125: the fastest option
fastestOption(req, m, peak, id) ==
    [id |-> id, pickup |-> req.pickup, delivery |-> req.delivery,
     polyline |-> m.polyline, distance |-> m.distance,
     duration |-> m.duration, strategy |-> "FASTEST",
     cost |-> computeCost(m.distance, m.duration, "DRONE", peak),
     machineType |-> "DRONE"]

\* service.CalculateRouteOptions, lines 128-138: the cheapest option, twice
\* as long on the ground
cheapestOptionMut(req, m, peak, id) ==
    [id |-> id, pickup |-> req.pickup, delivery |-> req.delivery,
     polyline |-> m.polyline, distance |-> m.distance,
     duration |-> m.duration, strategy |-> "CHEAPEST",
     cost |-> computeCost(m.distance, m.duration, "ROBOT", peak),
     machineType |-> "ROBOT"]

cheapestOption(req, m, peak, id) ==
    [id |-> id, pickup |-> req.pickup, delivery |-> req.delivery,
     polyline |-> m.polyline, distance |-> m.distance,
     duration |-> m.duration * 2, strategy |-> "CHEAPEST",
     cost |-> computeCost(m.distance, m.duration, "ROBOT", peak),
     machineType |-> "ROBOT"]

\* service.CalculateRouteOptions with the maps answer and the uuids given:
\* the maps API is asked first, the envelope is looked at afterwards
CalculateRouteOptions(req, maps, now, n) ==
    LET m == callGoogleMaps(maps)
        peak == isPeakHour(req.requestedTime, now) IN
    IF m.err # Nil
    THEN [opts |-> <<>>, err |-> Wrap("CalculateRouteOptions: maps API", m.err),
          mapsCalls |-> m.gets]
    ELSE IF tooLarge(req)
    THEN [opts |-> <<>>, err |-> ErrPackageTooLarge, mapsCalls |-> m.gets]
    ELSE [opts |-> (IF useDrone(req) THEN <<fastestOption(req, m, peak, n + 1)>> ELSE <<>>)
                      \o <<cheapestOption(req, m, peak, n + 2)>>,
          err |-> Nil, mapsCalls |-> m.gets]

\* the routes table once CalculateRouteOptions has returned opts: lines
\* 91-146 make no store call
QuoteRoutesMut(rs, opts) ==
    rs \o [i \in DOMAIN opts |->
             [id |-> Len(rs) + i, order |-> 0, polyline |-> opts[i].polyline,
              distance |-> opts[i].distance, duration |-> opts[i].duration]]

QuoteRoutes(rs, opts) == rs

\* the quote requests and clock readings tried
Time(h, m) == [zero |-> FALSE, hour |-> h, minute |-> m]
QuoteRequests ==
    {[pickup |-> "A", delivery |-> "B", weight |-> 20, length |-> 30, width |-> 30,
      height |-> 30, requestedTime |-> Time(9, 0)],
     [pickup |-> "A", delivery |-> "B", weight |-> 50, length |-> 80, width |-> 30,
      height |-> 30, requestedTime |-> [zero |-> TRUE, hour |-> 0, minute |-> 0]],
     [pickup |-> "A", delivery |-> "B", weight |-> 120, length |-> 30, width |-> 30,
      height |-> 30, requestedTime |-> Time(14, 0)]}
Clock == {Time(14, 30)}

UnchangedFleet ==
    /\ UNCHANGED <<machines>>
    /\ UnchangedLedger
    /\ UnchangedPricing

\* Service.GetDeliveryQuote: hands the request to CalculateRouteOptions and
\* returns its answer; uuid.NewString is drawn twice by a call that succeeds
GetDeliveryQuote ==
    /\ nextQuote + 2 <= MaxQuoteIds
    /\ \E req \in QuoteRequests, maps \in MapsAnswers, now \in Clock :
         LET r == CalculateRouteOptions(req, maps, now, nextQuote) IN
         /\ quoteRet' = [req |-> req, maps |-> maps, mapsCalls |-> r.mapsCalls,
                         opts |-> r.opts, err |-> r.err]
         /\ nextQuote' = IF r.err = Nil THEN nextQuote + 2 ELSE nextQuote
         /\ routes' = QuoteRoutes(routes, r.opts)
    /\ UNCHANGED <<routeCache, everCached, addresses, orders, call>>
    /\ UnchangedFleet
    /\ UnchangedPayments

\* Quote Cache Put of the design: an option a quote returned is stored under
\* its id, once
CachePut ==
    /\ \E i \in DOMAIN quoteRet.opts :
         LET opt == quoteRet.opts[i] IN
         /\ opt.id \notin everCached
         /\ routeCache' = (opt.id :> opt) @@ routeCache
         /\ everCached' = everCached \cup {opt.id}
    /\ UNCHANGED <<nextQuote, quoteRet, addresses, orders, call>>
    /\ UnchangedFleet
    /\ UnchangedRoutes
    /\ UnchangedPayments

----------------------------------------------------------------------------
(* Logistics service: ComputeRoute *)

MaxRoutes == 3

ErrNoRows == [kind |-> "pgx.ErrNoRows", ctx |-> ""]

\* Repository.GetOrderAddresses: the two address columns of the order's row;
\* no row is an error like any other
GetOrderAddresses(os, orderID) ==
    IF orderID \in DOMAIN os THEN Nil ELSE Wrap("GetOrderAddresses failed", ErrNoRows)

\* Repository.SaveRoute: one INSERT INTO routes, the id is fresh
SaveRouteMut(rs, route) ==
    IF rs = <<>> THEN <<[route EXCEPT !.id = 1]>>
    ELSE [rs EXCEPT ![Len(rs)] = [route EXCEPT !.id = Len(rs)]]

SaveRoute(rs, route) == Append(rs, [route EXCEPT !.id = Len(rs) + 1])

\* the order ids the requests name: the orders there are and one more
RequestedOrders == DOMAIN orders \cup {Cardinality(DOMAIN orders) + 1}

RoutesInFlight == Cardinality({q \in Procs : call[q].pc \in {"cr_maps", "cr_save"}})

\* service.ComputeRoute, lines 150-153: fetch the order's addresses
CR_Addresses(p) ==
    /\ call[p].pc = "idle"
    /\ Len(routes) + RoutesInFlight < MaxRoutes
    /\ \E orderID \in RequestedOrders :
         LET c == [call[p] EXCEPT !.op = "ComputeRoute", !.oid = orderID] IN
         \/ StoreFailed(p, c, Wrap("ComputeRoute: fetch addresses",
                                   Wrap("GetOrderAddresses failed", DBError(""))))
         \/ IF GetOrderAddresses(orders, orderID) = Nil
            THEN call' = [call EXCEPT ![p] = [c EXCEPT !.pc = "cr_maps"]]
            ELSE StoreFailed(p, c, Wrap("ComputeRoute: fetch addresses",
                                        GetOrderAddresses(orders, orderID)))
    /\ UNCHANGED <<machines, orders>>
    /\ UnchangedQuote

\* service.ComputeRoute, lines 154-157: ask the maps API
CR_Maps(p) ==
    /\ call[p].pc = "cr_maps"
    /\ \E ans \in MapsAnswers :
         LET m == callGoogleMaps(ans) IN
         IF m.err # Nil
         THEN Done(p, call[p], Wrap("ComputeRoute: maps API", m.err))
         ELSE call' = [call EXCEPT ![p] = [call[p] EXCEPT !.pc = "cr_save", !.maps = m]]
    /\ UNCHANGED <<machines, orders>>
    /\ UnchangedQuote

\* service.ComputeRoute, lines 158-171: build the route, save it, return it
CR_Save(p) ==
    /\ call[p].pc = "cr_save"
    /\ LET c == call[p]
           route == [id |-> 0, order |-> c.oid, polyline |-> c.maps.polyline,
                     distance |-> c.maps.distance, duration |-> c.maps.duration] IN
       \/ /\ StoreFailed(p, c, Wrap("ComputeRoute: save route", DBError("")))
          /\ UNCHANGED routes
       \/ /\ routes' = SaveRoute(routes, route)
          /\ call' = [call EXCEPT ![p] =
                        [c EXCEPT !.pc = "done", !.err = Nil,
                                  !.retR = routes'[Len(routes')]]]
    /\ UNCHANGED <<machines, orders>>
    /\ UNCHANGED <<addresses, routeCache, nextQuote, quoteRet, everCached>>
    /\ UnchangedLedger
    /\ UnchangedPricing
    /\ UnchangedPayments

\* routes are computed for two existing orders while quotes are asked for
InitRoute ==
    /\ machines = SeedMachines
    /\ orders = [o \in {1, 2} |-> NewOrder("u1", 0, 0)]
    /\ call = [p \in Procs |-> IdleCall]
    /\ InitQuoteEmpty

NextRoute ==
    \/ GetDeliveryQuote
    \/ \E p \in Procs :
         \/ CR_Addresses(p)
         \/ CR_Maps(p)
         \/ CR_Save(p)
         \/ Return(p)

SpecRoute == InitRoute /\ [][NextRoute]_vars

----------------------------------------------------------------------------
(* Order service: ConfirmAndPay and CancelOrder *)

MaxPayments == 2

StatusPending == "PENDING_PAYMENT"
ErrOrderCannotBeCancelled == [kind |-> "ErrOrderCannotBeCancelled", ctx |-> ""]
ErrOrderCannotBePaid == [kind |-> "ErrOrderCannotBePaid", ctx |-> ""]
ErrPayment == [kind |-> "payment", ctx |-> ""]

\* Service.GetOrderDetails once FindByID has answered: the order must exist
\* and belong to the user
GetOrderDetailsMut(os, orderID, userID) ==
    IF orderID \notin DOMAIN os THEN Wrap("service.GetOrderDetails", ErrNotFound) ELSE Nil

GetOrderDetails(os, orderID, userID) ==
    IF orderID \notin DOMAIN os THEN Wrap("service.GetOrderDetails", ErrNotFound)
    ELSE IF os[orderID].user # userID THEN ErrNotFound
    ELSE Nil

\* payment.ServiceInterface.ProcessPayment: the collaborator captures the
\* charge or refuses; the charge is remembered with the order it was made for
ProcessPayment(ps, orderID, userID, amount) ==
    {[err |-> ErrPayment, payments |-> ps]} \cup
    (IF amount <= 0 THEN {}
     ELSE {[err |-> Nil,
            payments |-> Append(ps, [order |-> orderID, user |-> userID, amount |-> amount])]})

\* Service.ConfirmAndPay, line 165: the payment did not go through
PaymentRefusedMut(err) == FALSE

PaymentRefused(err) == err # Nil

\* Repository.Update with a status only: UPDATE orders SET status WHERE id
RepoUpdate(os, orderID, status) == [os EXCEPT ![orderID].status = status]

\* Repository.UpdateStatusForUser: the rows WHERE id = $2 AND user_id = $3
RowsOfUser(os, orderID, userID) ==
    IF orderID \in DOMAIN os /\ os[orderID].user = userID THEN 1 ELSE 0
UpdateStatusForUser(os, orderID, userID, status) == [os EXCEPT ![orderID].status = status]

PaysInFlight == Cardinality({q \in Procs : call[q].pc = "cp_pay"})

UnchangedByOrders ==
    /\ UNCHANGED <<addresses, routeCache, nextQuote, quoteRet, everCached>>
    /\ UnchangedLedger
    /\ UnchangedPricing
    /\ UnchangedRoutes

\* Service.ConfirmAndPay, lines 152-161: fetch the order, check it can be paid
CP_Find(p) ==
    /\ call[p].pc = "idle"
    /\ Len(payments) + PaysInFlight < MaxPayments
    /\ \E userID \in Users, orderID \in RequestedOrders :
         LET c == [call[p] EXCEPT !.op = "ConfirmAndPay", !.uid = userID, !.oid = orderID] IN
         \/ Done(p, c, Wrap("service.GetOrderDetails", DBError("")))
         \/ IF GetOrderDetails(orders, orderID, userID) # Nil
            THEN Done(p, c, GetOrderDetails(orders, orderID, userID))
            ELSE IF orders[orderID].status # StatusPending
            THEN Done(p, c, ErrOrderCannotBePaid)
            ELSE call' = [call EXCEPT ![p] =
                            [c EXCEPT !.pc = "cp_pay", !.cost = orders[orderID].cost]]
    /\ UNCHANGED <<machines, orders, payments>>
    /\ UnchangedByOrders

\* Service.ConfirmAndPay, lines 163-167: charge the order's cost
CP_Pay(p) ==
    /\ call[p].pc = "cp_pay"
    /\ \E out \in ProcessPayment(payments, call[p].oid, call[p].uid, call[p].cost) :
         LET c == [call[p] EXCEPT !.paid = (out.err = Nil), !.payCalls = @ + 1] IN
         /\ payments' = out.payments
         /\ IF PaymentRefused(out.err)
            THEN Done(p, c, Wrap("payment processing failed", out.err))
            ELSE call' = [call EXCEPT ![p] = [c EXCEPT !.pc = "cp_update"]]
    /\ UNCHANGED <<machines, orders>>
    /\ UnchangedByOrders

\* Service.ConfirmAndPay, lines 169-178: set the order CONFIRMED
CP_Update(p) ==
    /\ call[p].pc = "cp_update"
    /\ LET c == call[p] IN
       \/ /\ Done(p, c, Wrap("failed to update order status after successful payment",
                             DBError("")))
          /\ UNCHANGED orders
       \/ IF c.oid \in DOMAIN orders
          THEN /\ orders' = RepoUpdate(orders, c.oid, "CONFIRMED")
               /\ call' = [call EXCEPT ![p] =
                             [c EXCEPT !.pc = "cp_assign", !.updated = orders'[c.oid].status]]
          ELSE /\ Done(p, c, ErrNotFound)
               /\ UNCHANGED orders
    /\ UNCHANGED <<machines, payments>>
    /\ UnchangedByOrders

\* Service.ConfirmAndPay, lines 180-190: enter AssignOrder for the order; its
\* two later store calls are AO_Assign and AO_Status, what they return is
\* what ConfirmAndPay returns
CP_Assign(p) ==
    /\ call[p].pc = "cp_assign"
    /\ AO_ListFor(p, call[p])
    /\ UNCHANGED <<machines, orders, payments>>
    /\ UnchangedByOrders

\* Service.CancelOrder, lines 137-145: fetch the order, check it is pending
CN_Find(p) ==
    /\ call[p].pc = "idle"
    /\ \E userID \in Users, orderID \in RequestedOrders :
         LET c == [call[p] EXCEPT !.op = "CancelOrder", !.uid = userID, !.oid = orderID] IN
         \/ Done(p, c, Wrap("service.GetOrderDetails", DBError("")))
         \/ IF GetOrderDetails(orders, orderID, userID) # Nil
            THEN Done(p, c, GetOrderDetails(orders, orderID, userID))
            ELSE IF orders[orderID].status # StatusPending
            THEN Done(p, c, ErrOrderCannotBeCancelled)
            ELSE call' = [call EXCEPT ![p] = [c EXCEPT !.pc = "cn_update"]]
    /\ UNCHANGED <<machines, orders, payments>>
    /\ UnchangedByOrders

\* Service.CancelOrder, line 147: set the order CANCELLED
CN_Update(p) ==
    /\ call[p].pc = "cn_update"
    /\ LET c == call[p] IN
       \/ /\ Done(p, c, Wrap("repository.UpdateStatusForUser", DBError("")))
          /\ UNCHANGED orders
       \/ IF RowsOfUser(orders, c.oid, c.uid) # 0
          THEN /\ orders' = UpdateStatusForUser(orders, c.oid, c.uid, "CANCELLED")
               /\ Done(p, c, Nil)
          ELSE /\ Done(p, c, ErrNotFound)
               /\ UNCHANGED orders
    /\ UNCHANGED <<machines, payments>>
    /\ UnchangedByOrders

\* one pending order of one user, the seeded fleet
InitPay ==
    /\ machines = SeedMachines
    /\ orders = [o \in {1} |-> NewOrder("u1", 0, 0)]
    /\ call = [p \in Procs |-> IdleCall]
    /\ InitQuoteEmpty

NextPay ==
    \E p \in Procs :
       \/ CP_Find(p)
       \/ CP_Pay(p)
       \/ CP_Update(p)
       \/ CP_Assign(p)
       \/ AO_Assign(p)
       \/ AO_Status(p)
       \/ CN_Find(p)
       \/ CN_Update(p)
       \/ Return(p)

SpecPay == InitPay /\ [][NextPay]_vars

----------------------------------------------------------------------------
(* Order handler: GetOrderDetails *)

\* Handler.GetOrderDetails, lines 102-113: err is compared with == to the two
\* sentinels, so an error that wraps one of them is neither
JSONResponse(err, orderID) ==
    IF err = Nil THEN [status |-> 200, message |-> "", order |-> orderID]
    ELSE IF err = ErrNotFound
    THEN [status |-> 404, message |-> "Order not found", order |-> 0]
    ELSE IF err = ErrForbidden
    THEN [status |-> 403, message |-> "Access denied", order |-> 0]
    ELSE [status |-> 500, message |-> "Failed to retrieve order details", order |-> 0]

\* Handler.GetOrderDetails: the one call of the service, then the response
HandlerGetOrderDetails(p) ==
    /\ call[p].pc = "idle"
    /\ \E userID \in Users, orderID \in RequestedOrders :
         LET c == [call[p] EXCEPT !.op = "GetOrderDetails", !.uid = userID, !.oid = orderID] IN
         \/ LET err == Wrap("service.GetOrderDetails", Wrap("repository.FindByID", DBError(""))) IN
            StoreFailed(p, [c EXCEPT !.resp = JSONResponse(err, orderID)], err)
         \/ LET err == GetOrderDetails(orders, orderID, userID) IN
            Done(p, [c EXCEPT !.resp = JSONResponse(err, orderID)], err)
    /\ UNCHANGED <<machines, orders, payments>>
    /\ UnchangedByOrders

\* orders of both users exist
InitDetails ==
    /\ machines = SeedMachines
    /\ orders = [o \in 1..ExistingOrders |-> NewOrder(IF o = 1 THEN "u1" ELSE "u2", 0, 0)]
    /\ call = [p \in Procs |-> IdleCall]
    /\ InitQuoteEmpty

NextDetails ==
    \E p \in Procs :
       \/ HandlerGetOrderDetails(p)
       \/ Return(p)

SpecDetails == InitDetails /\ [][NextDetails]_vars

----------------------------------------------------------------------------
(* The five operations of the logistics service that call the store, one   *)
(* request at a time                                                       *)

InitStore ==
    /\ machines = SeedMachines
    /\ orders = [o \in 1..ExistingOrders |->
                   [NewOrder("u1", 0, 0) EXCEPT !.status = "CONFIRMED"]]
    /\ call = [p \in Procs |-> IdleCall]
    /\ InitQuoteEmpty

\* a run works on one part of the store: an operation begins only while
\* the tables that the other operations write are as they were at the start
FleetAsSeeded == machines = SeedMachines /\ \A o \in DOMAIN orders : orders[o].machine = NULL
OnlyFleetWritten == routes = <<>> /\ events = {}
OnlyRoutesWritten == FleetAsSeeded /\ events = {}
OnlyLedgerWritten == FleetAsSeeded /\ routes = <<>>

NextStore ==
    \E p \in {"p1"} :
       \/ OnlyFleetWritten /\ AO_List(p)
       \/ AO_Assign(p)
       \/ AO_Status(p)
       \/ OnlyFleetWritten /\ SM_Find(p)
       \/ SM_Update(p)
       \/ OnlyRoutesWritten /\ CR_Addresses(p)
       \/ CR_Maps(p)
       \/ CR_Save(p)
       \/ OnlyLedgerWritten /\ ReportTracking(p)
       \/ OnlyLedgerWritten /\ GetTracking(p)
       \/ Return(p)

SpecStore == InitStore /\ [][NextStore]_vars

----------------------------------------------------------------------------
(* The pricing functions on their own: the arguments are drawn at the      *)
(* start, each call applies one function to them                           *)

Distances == {0, 25, 50, 1000, 1500, 2750}
Durations == {0, 600, 1200}
MachineTypes == {"DRONE", "ROBOT"}
TimesOfDay ==
    {Time(h, m) : h \in {7, 8, 9, 10, 14, 16, 17, 19}, m \in {0, 1, 59}}
        \cup {[zero |-> TRUE, hour |-> 0, minute |-> 0]}

InitPricing ==
    /\ machines = SeedMachines
    /\ orders = <<>>
    /\ call = [p \in Procs |-> IdleCall]
    /\ InitCacheEmpty
    /\ InitLedgerEmpty
    /\ InitRoutesEmpty
    /\ InitPaymentsEmpty
    /\ costArgs \in [distance : Distances, duration : Durations,
                     machineType : MachineTypes, peak : BOOLEAN, at : TimesOfDay]
    /\ costRet = NoCostRet

UnchangedByPricing ==
    /\ UNCHANGED <<machines, orders, call, costArgs>>
    /\ UNCHANGED <<addresses, routeCache, nextQuote, quoteRet, everCached>>
    /\ UnchangedLedger
    /\ UnchangedRoutes
    /\ UnchangedPayments

CallIsPeakHour ==
    /\ \E now \in Clock :
         costRet' = [fn |-> "isPeakHour", peak |-> isPeakHour(costArgs.at, now), cost |-> 0]
    /\ UnchangedByPricing

CallComputeCost ==
    /\ \E c \in computeCostOutcomes(costArgs.distance, costArgs.duration,
                                    costArgs.machineType, costArgs.peak) :
         costRet' = [fn |-> "computeCost", peak |-> FALSE, cost |-> c]
    /\ UnchangedByPricing

NextPricing ==
    \/ CallIsPeakHour
    \/ CallComputeCost

SpecPricing == InitPricing /\ [][NextPricing]_vars

----------------------------------------------------------------------------
(* Order service: CreateOrder *)

CacheLookupMut(cache, id) == TRUE
\* routeOption, ok := s.routeCache[id] under the read lock
CacheLookup(cache, id) == id \in DOMAIN cache

CacheDeleteMut(cache, id) == cache
\* delete(s.routeCache, id) under the write lock
CacheDelete(cache, id) == [k \in DOMAIN cache \ {id} |-> cache[k]]

\* Repository.InsertAddress: INSERT INTO addresses ... RETURNING id
InsertAddress(as, userID, street) == Append(as, [user |-> userID, street |-> street])

\* Repository.Create: INSERT INTO orders ... 'PENDING_PAYMENT' ... RETURNING
RepoCreate(os, userID, pickupID, dropoffID) ==
    (Cardinality(DOMAIN os) + 1 :> NewOrder(userID, pickupID, dropoffID)) @@ os

UnchangedQuoting == UNCHANGED <<nextQuote, quoteRet, everCached>>

\* Service.CreateOrder, lines 58-64: look the option up under the read lock
CO_Lookup(p) ==
    /\ call[p].pc = "idle"
    /\ \E userID \in Users, id \in QuoteIds :
         LET c == [call[p] EXCEPT !.op = "CreateOrder", !.uid = userID, !.qid = id,
                                  !.late = (id \in everCached /\ id \notin DOMAIN routeCache)] IN
         IF CacheLookup(routeCache, id)
         THEN call' = [call EXCEPT ![p] =
                         [c EXCEPT !.pc = "co_pickup",
                                   !.opt = IF id \in DOMAIN routeCache THEN routeCache[id] ELSE NoOption]]
         ELSE Done(p, c, ErrRouteOptionExpired)
    /\ UNCHANGED <<routeCache, addresses, orders>>
    /\ UnchangedQuoting
    /\ UnchangedFleet
    /\ UnchangedRoutes
    /\ UnchangedPayments

\* Service.CreateOrder, lines 67-72: insert the pickup address
CO_InsertPickup(p) ==
    /\ call[p].pc = "co_pickup"
    /\ call[p].opt # NoOption
    /\ LET c == call[p] IN
       \/ /\ Done(p, c, Wrap("service.CreateOrder: failed to insert pickup address", DBError("")))
          /\ UNCHANGED addresses
       \/ /\ addresses' = InsertAddress(addresses, c.uid, c.opt.pickup)
          /\ call' = [call EXCEPT ![p] = [c EXCEPT !.pc = "co_dropoff", !.pickupID = Len(addresses')]]
    /\ UNCHANGED <<routeCache, orders>>
    /\ UnchangedQuoting
    /\ UnchangedFleet
    /\ UnchangedRoutes
    /\ UnchangedPayments

\* Service.CreateOrder, lines 73-78: insert the dropoff address
CO_InsertDropoff(p) ==
    /\ call[p].pc = "co_dropoff"
    /\ LET c == call[p] IN
       \/ /\ Done(p, c, Wrap("service.CreateOrder: failed to insert dropoff address", DBError("")))
          /\ UNCHANGED addresses
       \/ /\ addresses' = InsertAddress(addresses, c.uid, c.opt.delivery)
          /\ call' = [call EXCEPT ![p] = [c EXCEPT !.pc = "co_create", !.dropoffID = Len(addresses')]]
    /\ UNCHANGED <<routeCache, orders>>
    /\ UnchangedQuoting
    /\ UnchangedFleet
    /\ UnchangedRoutes
    /\ UnchangedPayments

CO_CreateMut(p) ==
    /\ call[p].pc = "co_create"
    /\ LET c == call[p] IN
       \/ /\ Done(p, c, Wrap("service.CreateOrder", DBError("")))
          /\ routeCache' = CacheDelete(routeCache, c.qid)
          /\ UNCHANGED orders
       \/ /\ orders' = RepoCreate(orders, c.uid, c.pickupID, c.dropoffID)
          /\ call' = [call EXCEPT ![p] = [c EXCEPT !.pc = "co_delete", !.retO = Cardinality(DOMAIN orders')]]
          /\ UNCHANGED routeCache
    /\ UNCHANGED addresses
    /\ UnchangedQuoting
    /\ UnchangedFleet
    /\ UnchangedRoutes
    /\ UnchangedPayments

\* Service.CreateOrder, lines 80-83: create the order
CO_Create(p) ==
    /\ call[p].pc = "co_create"
    /\ LET c == call[p] IN
       \/ /\ Done(p, c, Wrap("service.CreateOrder", DBError("")))
          /\ UNCHANGED orders
       \/ /\ orders' = RepoCreate(orders, c.uid, c.pickupID, c.dropoffID)
          /\ call' = [call EXCEPT ![p] = [c EXCEPT !.pc = "co_delete", !.retO = Cardinality(DOMAIN orders')]]
    /\ UNCHANGED <<routeCache, addresses>>
    /\ UnchangedQuoting
    /\ UnchangedFleet
    /\ UnchangedRoutes
    /\ UnchangedPayments

\* Service.CreateOrder, lines 86-90: drop the option under the write lock, return
CO_Delete(p) ==
    /\ call[p].pc = "co_delete"
    /\ routeCache' = CacheDelete(routeCache, call[p].qid)
    /\ Done(p, call[p], Nil)
    /\ UNCHANGED <<addresses, orders>>
    /\ UnchangedQuoting
    /\ UnchangedFleet
    /\ UnchangedRoutes
    /\ UnchangedPayments

InitQuote ==
    /\ machines = SeedMachines
    /\ orders = <<>>
    /\ call = [p \in Procs |-> IdleCall]
    /\ InitQuoteEmpty

NextQuote ==
    \/ GetDeliveryQuote
    \/ CachePut
    \/ \E p \in Procs :
         \/ CO_Lookup(p)
         \/ CO_InsertPickup(p)
         \/ CO_InsertDropoff(p)
         \/ CO_Create(p)
         \/ CO_Delete(p)

SpecQuote == InitQuote /\ [][NextQuote]_vars

----------------------------------------------------------------------------
(* Claims about the quote cache and CreateOrder, under SpecQuote *)

CreateOrderDone(p) == call[p].pc = "done" /\ call[p].op = "CreateOrder"

\* C1: of two concurrent CreateOrder calls that name the same cached quote id
\* at most one succeeds: a quote id never yields more than one order.
C1_AtMostOneRedemption ==
    \A p, q \in Procs :
        (p # q /\ CreateOrderDone(p) /\ CreateOrderDone(q) /\ call[p].qid = call[q].qid)
            => ~(call[p].err = Nil /\ call[q].err = Nil)

\* C3: every option a quote request returned is stored in the quote cache
\* under its id (it is there, or was there until redeemed).
C3_QuotedOptionsCached ==
    \A i \in DOMAIN quoteRet.opts : quoteRet.opts[i].id \in everCached

\* C4: of two CreateOrder calls in sequence on one cached quote id, the first
\* succeeds and removes the entry and the second, begun after the removal,
\* fails with ErrRouteOptionExpired; past the lookup only the store can fail.
C4_SecondRedemptionFails ==
    \A p \in Procs :
        CreateOrderDone(p) =>
            /\ call[p].err = Nil => call[p].qid \notin DOMAIN routeCache
            /\ call[p].late => call[p].err = ErrRouteOptionExpired
            /\ call[p].err \notin {Nil, ErrRouteOptionExpired} => call[p].err.kind = "driver"

C4_Witness ==
    \E p, q \in Procs :
        /\ p # q /\ CreateOrderDone(p) /\ CreateOrderDone(q)
        /\ call[p].qid = call[q].qid
        /\ call[p].err = Nil /\ call[p].retO \in DOMAIN orders
        /\ call[q].late /\ call[q].err = ErrRouteOptionExpired

\* C5: CreateOrder on an id that is not in the cache fails with
\* ErrRouteOptionExpired and writes no address, no order and nothing to the
\* cache; every other failure of CreateOrder is a different error.
C5_MissingQuoteExpired ==
    [][\A p \in Procs :
        /\ (call[p].pc = "idle" /\ call'[p].op = "CreateOrder"
                /\ call'[p].qid \notin DOMAIN routeCache)
             => /\ call'[p].pc = "done"
                /\ call'[p].err = ErrRouteOptionExpired
                /\ UNCHANGED <<addresses, orders, routeCache>>
        /\ (call[p].pc \in {"co_pickup", "co_dropoff", "co_create", "co_delete"}
                /\ call'[p].pc = "done")
             => /\ call'[p].err # ErrRouteOptionExpired
                /\ call'[p].err.kind # ErrRouteOptionExpired.kind]_vars

C5_Witness ==
    \E p, q \in Procs :
        /\ CreateOrderDone(p) /\ call[p].qid \notin everCached
        /\ call[p].err = ErrRouteOptionExpired
        /\ CreateOrderDone(q) /\ call[q].err.kind = "driver"
        /\ orders = <<>>

----------------------------------------------------------------------------
(* Claims about the assignment engine, under SpecAssign *)

AssignOrderDone(p) == call[p].pc = "done" /\ call[p].op = "AssignOrder"
Idle == {id \in MachineIds : machines[id].status = StatusIdle}
\* p's step is the return of AssignOrder from its machine-side update
ReturnsFromStatus(p) == call[p].pc = "ao_status" /\ call'[p].pc = "done"

\* C2: under any interleaving of AssignOrder calls for different orders, no
\* machine is bound to two orders.
C2_NoDoubleBooking ==
    \A o1, o2 \in DOMAIN orders :
        (o1 # o2 /\ orders[o1].machine # NULL) => orders[o1].machine # orders[o2].machine

\* C6: an order that is bound to a machine is never bound again, whatever
\* AssignOrder calls follow or overlap.
C6_BoundOnce ==
    [][\A o \in DOMAIN orders :
          orders[o].machine # NULL => orders'[o] = orders[o]]_vars

\* C7: when an AssignOrder call has returned, the order is not left
\* IN_PROGRESS on the call's machine while that machine is still IDLE.
C7_BothSidesOrNeither ==
    \A p \in Procs :
        (AssignOrderDone(p) /\ call[p].m.id \in MachineIds /\ call[p].oid \in DOMAIN orders)
            => ~(/\ orders[call[p].oid].status = "IN_PROGRESS"
                 /\ orders[call[p].oid].machine = call[p].m.id
                 /\ machines[call[p].m.id].status = StatusIdle)

\* C8: the error AssignOrder returns when the order was written and the
\* machine update failed is of a kind none of its nothing-written errors has.
NothingWrittenKinds ==
    {ErrListFailed.kind, ErrNoIdleMachines.kind, ErrNotFound.kind, ErrAssignFailed.kind}
C8_PartialFailureDistinct ==
    [][\A p \in Procs :
          (ReturnsFromStatus(p) /\ call'[p].err # Nil)
              => call'[p].err.kind \notin NothingWrittenKinds]_vars

\* C9: AssignOrder begun while no machine is IDLE fails, with the
\* no-machine-available error unless the listing itself failed, and changes
\* no machine and no order.
C9_NoIdleMachine ==
    [][\A p \in Procs :
          (call[p].pc = "idle" /\ call'[p].op = "AssignOrder" /\ Idle = {})
              => /\ call'[p].pc = "done"
                 /\ call'[p].err \in {ErrNoIdleMachines, ErrListFailed}
                 /\ UNCHANGED <<machines, orders>>]_vars

C9_Witness ==
    \E p \in Procs :
        /\ AssignOrderDone(p) /\ call[p].err = ErrNoIdleMachines
        /\ Idle = {}

\* C10: AssignOrder picks a machine that is IDLE, binds the order to it and
\* sets the order IN_PROGRESS, sets that machine IN_TRANSIT and no other
\* machine or field, and returns the machine's record with status IN_TRANSIT;
\* with an IDLE machine and an existing order only a store failure stops it.
C10_AssignsOneIdleMachine ==
    [][\A p \in Procs :
        LET c == call[p] IN
        /\ (c.pc = "idle" /\ call'[p].op = "AssignOrder")
             => /\ call'[p].pc = "ao_assign"
                    => /\ call'[p].m.id \in Idle
                       /\ call'[p].m = MachineRow(call'[p].m.id)
                /\ Idle # {} => call'[p].err # ErrNoIdleMachines
                /\ UNCHANGED <<machines, orders>>
        /\ (c.pc = "ao_assign" /\ call'[p].pc = "ao_status")
             => /\ orders'[c.oid].machine = c.m.id
                /\ orders'[c.oid].status = "IN_PROGRESS"
                /\ \A o \in DOMAIN orders : o # c.oid => orders'[o] = orders[o]
                /\ UNCHANGED machines
        /\ (c.pc = "ao_assign" /\ call'[p].pc = "done")
             => /\ c.oid \in DOMAIN orders => call'[p].err = ErrAssignFailed
                /\ UNCHANGED <<machines, orders>>
        /\ (ReturnsFromStatus(p) /\ call'[p].err = Nil)
             => /\ machines'[c.m.id] = [machines[c.m.id] EXCEPT !.status = StatusInTransit]
                /\ \A id \in MachineIds : id # c.m.id => machines'[id] = machines[id]
                /\ call'[p].retM = [c.m EXCEPT !.status = StatusInTransit]
                /\ UNCHANGED orders
        /\ (ReturnsFromStatus(p) /\ call'[p].err # Nil)
             => call'[p].err = ErrStatusFailed]_vars

C10_Witness ==
    \E p \in Procs :
        /\ AssignOrderDone(p) /\ call[p].err = Nil
        /\ call[p].retM.id \in MachineIds /\ call[p].retM.status = StatusInTransit
        /\ orders[call[p].oid].machine = call[p].retM.id
        /\ orders[call[p].oid].status = "IN_PROGRESS"
        /\ machines[call[p].retM.id].status = StatusInTransit
        /\ \E id \in MachineIds : id # call[p].retM.id /\ machines[id] = SeedMachines[id]

\* C11: the machine AssignOrder takes is fixed by the set of IDLE machines:
\* the first IDLE machine in registration order (m1 when m1 and m2 are IDLE),
\* whatever order the store lists the rows in.
RegistrationOrder == <<"m1", "m2">>
FirstIdle ==
    RegistrationOrder[CHOOSE i \in DOMAIN RegistrationOrder :
        /\ RegistrationOrder[i] \in Idle
        /\ \A j \in DOMAIN RegistrationOrder : j < i => RegistrationOrder[j] \notin Idle]
C11_DeterministicSelection ==
    [][\A p \in Procs :
          (call[p].pc = "idle" /\ call'[p].pc = "ao_assign")
              => call'[p].m.id = FirstIdle]_vars

\* C12: AssignOrder changes an order only if its payment is confirmed: an
\* order that is PENDING_PAYMENT, CANCELLED, DELIVERED or FAILED is left as
\* it is.
C12_OnlyConfirmedOrders ==
    [][\A o \in DOMAIN orders :
          orders[o].status \in {"PENDING_PAYMENT", "CANCELLED", "DELIVERED", "FAILED"}
              => orders'[o] = orders[o]]_vars

\* C13 as stated: AssignOrder for an order id that names no order fails
\* with NotFound (the store answering at all) and moves no machine.
UnknownOrderCall(c) == c.op = "AssignOrder" /\ c.oid \notin DOMAIN orders
C13_UnknownOrderNotFound ==
    \A p \in Procs :
        (AssignOrderDone(p) /\ UnknownOrderCall(call[p]) /\ call[p].err.kind # "driver")
            => call[p].err = ErrNotFound

\* C13: AssignOrder for an order id that names no order fails and
\* changes no machine and no order: with NotFound once an IDLE machine was
\* listed, with the no-machine-available error when none is IDLE (the listing
\* comes before the order is looked at), or with the store's own failure; it
\* never reaches the machine update.
C13_UnknownOrderFails ==
    [][\A p \in Procs :
          (call'[p] # call[p] /\ UnknownOrderCall(call'[p]))
              => /\ UNCHANGED <<machines, orders>>
                 /\ call'[p].pc # "ao_status"
                 /\ call[p].pc = "idle"
                      => /\ Idle # {} => (call'[p].pc = "ao_assign" \/ call'[p].err = ErrListFailed)
                         /\ Idle = {} => call'[p].err \in {ErrNoIdleMachines, ErrListFailed}
                 /\ call[p].pc = "ao_assign"
                      => /\ call'[p].pc = "done"
                         /\ call'[p].err \in {ErrNotFound, ErrAssignFailed}]_vars

C13_Witness ==
    \E p \in Procs :
        /\ AssignOrderDone(p) /\ UnknownOrderCall(call[p])
        /\ call[p].err = ErrNotFound
        /\ call[p].m.id \in Idle

----------------------------------------------------------------------------
(* Claims about the fleet status update, under SpecStatus *)

SetMachineStatusDone(p) ==
    call[p].pc = "done" /\ call[p].op \in {"SetMachineStatus", "Handler.SetMachineStatus"}

\* C14: SetMachineStatus on a known machine sets its status and position
\* to the requested values and leaves its battery level and type and every
\* other machine as they are; on an unknown id it fails with NotFound (or the
\* store's own failure) and changes nothing.
C14_OverwritesStatusAndPosition ==
    [][\A p \in Procs :
        LET c == call[p] IN
        /\ (c.pc = "sm_update" /\ call'[p].pc = "done" /\ call'[p].err = Nil)
             => /\ machines'[c.mid].status = c.req.status
                /\ machines'[c.mid].lat = c.req.lat
                /\ machines'[c.mid].lon = c.req.lon
                /\ machines'[c.mid].battery = machines[c.mid].battery
                /\ machines'[c.mid].type = machines[c.mid].type
                /\ DOMAIN machines' = DOMAIN machines
                /\ \A id \in MachineIds : id # c.mid => machines'[id] = machines[id]
                /\ UNCHANGED orders
        /\ (c.pc = "sm_update" /\ call'[p].pc = "done" /\ call'[p].err # Nil)
             => /\ call'[p].err = ErrUpdateFailed
                /\ UNCHANGED <<machines, orders>>
        /\ (c.pc = "idle" /\ call'[p].pc # "idle")
             => /\ UNCHANGED <<machines, orders>>
                /\ (call'[p].mid \notin MachineIds /\ call'[p].err.kind # "http400")
                     => /\ call'[p].pc = "done"
                        /\ call'[p].err \in {ErrNotFound, ErrFindFailed}
                /\ (call'[p].mid \in MachineIds /\ call'[p].pc = "done")
                     => call'[p].err.kind \in {"driver", "http400"}]_vars

C14_Witness ==
    \E p, q \in Procs :
        /\ SetMachineStatusDone(p) /\ call[p].err = Nil
        /\ call[p].req.status = "CHARGING"
        /\ machines[call[p].mid] =
               [SeedMachines[call[p].mid] EXCEPT !.status = "CHARGING", !.lat = 1, !.lon = 2]
        /\ \A id \in MachineIds : id # call[p].mid => machines[id] = SeedMachines[id]
        /\ SetMachineStatusDone(q) /\ call[q].mid = UnknownMachine
        /\ call[q].err = ErrNotFound

\* C15: the handler of SetMachineStatus lets a request through to the
\* service exactly when its status is one of IDLE, IN_TRANSIT, CHARGING,
\* MAINTENANCE, and answers every other status with a rejection.
C15_AcceptsExactlyEnum ==
    [][\A p \in Procs :
          (call[p].pc = "idle" /\ call'[p].op = "Handler.SetMachineStatus")
              => (call'[p].err.kind = "http400" <=> call'[p].req.status \notin MachineStatuses)]_vars

----------------------------------------------------------------------------
(* Claims about the tracking ledger, under SpecTrack *)

GetTrackingReturns(p) ==
    call[p].pc = "idle" /\ call'[p].op = "GetTracking" /\ call'[p].err = Nil
Returned(r) == {r.evs[i] : i \in DOMAIN r.evs}

\* C16: GetTracking(orderID, since) returns exactly the events of that
\* order created strictly after since, each once, in ascending creation time.
C16_EventsStrictlyAfterSince ==
    [][\A p \in Procs :
          GetTrackingReturns(p) =>
              LET r == trackRet' IN
              /\ r.order = call'[p].oid
              /\ Returned(r) = {e \in events : e.order = r.order /\ e.createdAt > r.since}
              /\ Len(r.evs) = Cardinality(Returned(r))
              /\ \A i, j \in DOMAIN r.evs : i < j => r.evs[i].createdAt < r.evs[j].createdAt]_vars

C16_Witness ==
    /\ trackRet.err = Nil
    /\ Len(trackRet.evs) >= 2
    /\ \E e \in events : e.order = trackRet.order /\ e.createdAt = trackRet.since
    /\ \E e \in events : e.order # trackRet.order /\ e.createdAt > trackRet.since

\* C17: the ledger is append-only: a successful ReportTracking adds exactly
\* one event, for the order given, and no step changes or removes an event;
\* GetTracking with since = zero time returns all the events of the order in
\* the order they were reported.
C17_AppendOnly ==
    [][/\ events \subseteq events'
       /\ \A p \in Procs :
            /\ (call[p].pc = "idle" /\ call'[p].op = "ReportTracking")
                 => IF call'[p].err = Nil
                    THEN /\ Cardinality(events') = Cardinality(events) + 1
                         /\ \A e \in events' \ events :
                              /\ e.order = call'[p].oid
                              /\ e.machine = call'[p].req.machine
                              /\ e.lat = call'[p].req.lat /\ e.lon = call'[p].req.lon
                    ELSE events' = events
            /\ (call[p].pc = "idle" /\ call'[p].op = "GetTracking") => events' = events
            /\ (GetTrackingReturns(p) /\ trackRet'.since = 0)
                 => LET r == trackRet' IN
                    /\ Returned(r) = {e \in events : e.order = r.order}
                    /\ Len(r.evs) = Cardinality(Returned(r))
                    /\ \A i, j \in DOMAIN r.evs : i < j => r.evs[i].id < r.evs[j].id]_vars

C17_Witness ==
    /\ trackRet.err = Nil /\ trackRet.since = 0
    /\ Len(trackRet.evs) = 2
    /\ Returned(trackRet) = {e \in events : e.order = trackRet.order}
    /\ trackRet.evs[1].id < trackRet.evs[2].id
    /\ Cardinality(events) = 3

----------------------------------------------------------------------------
(* Claims about the pricing functions, under SpecPricing *)

\* the closed windows [08:00,10:00] and [17:00,19:00], in minutes of the day
InPeakWindow(t) ==
    LET minuteOfDay == t.hour * 60 + t.minute IN
    \/ (minuteOfDay >= 8 * 60 /\ minuteOfDay <= 10 * 60)
    \/ (minuteOfDay >= 17 * 60 /\ minuteOfDay <= 19 * 60)

\* C18: isPeakHour answers true exactly for the instants whose time of day
\* lies in [08:00,10:00] or [17:00,19:00]: 10:01 and 19:01 are not peak.
C18_ClosedPeakWindows ==
    (costRet.fn = "isPeakHour" /\ ~costArgs.at.zero)
        => (costRet.peak <=> InPeakWindow(costArgs.at))

\* C19: computeCost returns base + perKm x km, times 1.2 when peak, rounded
\* to a whole cent (at most half a cent from the exact amount), with
\* (base, perKm) = (2.00, 0.50) aerial and (1.00, 0.30) ground; what it can
\* return does not depend on durationSeconds; 1000 m aerial off-peak is 2.50.
ClaimedTenThousandths(a) ==
    LET base == IF a.machineType = "DRONE" THEN 200 ELSE 100
        perKm == IF a.machineType = "DRONE" THEN 50 ELSE 30 IN
    (base * 1000 + perKm * a.distance) * (IF a.peak THEN 12 ELSE 10)
RobotPeakCall ==
    /\ costRet.fn = "computeCost"
    /\ costArgs.distance = 1000 /\ costArgs.duration = 600
    /\ costArgs.machineType = "ROBOT" /\ costArgs.peak

----------------------------------------------------------------------------
(* Claims about quoting and route computation: C21 under SpecQuote, the    *)
(* others under SpecRoute                                                  *)

\* a step in which a quote is returned
QuoteReturns == quoteRet' # quoteRet \/ nextQuote' # nextQuote
Quoted == quoteRet.maps.status # NULL

\* the envelopes, as the design words them
ExceedsGround(req) ==
    \/ req.weight > RobotMaxWeight
    \/ \E d \in {req.length, req.width, req.height} : d > RobotMaxDim
FitsAerial(req) ==
    /\ req.weight <= DroneMaxWeight
    /\ \A d \in {req.length, req.width, req.height} : d <= DroneMaxDim

\* C21: a request whose weight or one of whose dimensions exceeds the
\* ground-machine envelope is answered PackageTooLarge, with no option and no
\* new cache entry, whatever the maps API answers.
C21_OversizeIsPackageTooLarge ==
    [][(QuoteReturns /\ ExceedsGround(quoteRet'.req))
          => /\ quoteRet'.err = ErrPackageTooLarge
             /\ quoteRet'.opts = <<>>
             /\ routeCache' = routeCache]_vars

\* C22: a successful quote is <<fastest (aerial), cheapest (ground)>> when
\* the item fits the aerial envelope and <<cheapest (ground)>> otherwise; the
\* cheapest option is always there and always last.
C22_FastestThenCheapest ==
    (Quoted /\ quoteRet.err = Nil) =>
        LET opts == quoteRet.opts
            last == opts[Len(opts)] IN
        /\ Len(opts) = IF FitsAerial(quoteRet.req) THEN 2 ELSE 1
        /\ last.strategy = "CHEAPEST" /\ last.machineType = "ROBOT"
        /\ Len(opts) = 2 => (opts[1].strategy = "FASTEST" /\ opts[1].machineType = "DRONE")

C22_Witness ==
    /\ Quoted /\ quoteRet.err = Nil
    /\ ~FitsAerial(quoteRet.req)
    /\ Len(quoteRet.opts) = 1
    /\ quoteRet.opts[1].machineType = "ROBOT"

C24_OneMapsCallNoRetry ==
    Quoted =>
        /\ quoteRet.mapsCalls = 1
        /\ quoteRet.maps.status \in {"unreachable", "empty"}
             => /\ quoteRet.err \notin {Nil, ErrPackageTooLarge}
                /\ quoteRet.opts = <<>>

C24_Witness ==
    /\ quoteRet.maps.status = "empty"
    /\ quoteRet.mapsCalls = 1
    /\ quoteRet.err.ctx = "CalculateRouteOptions: maps API"
    /\ quoteRet.opts = <<>>

C26_TwoOptionsTwoRoutes ==
    [][(QuoteReturns /\ quoteRet'.err = Nil /\ Len(quoteRet'.opts) = 2)
          => Len(routes') = Len(routes) + 2]_vars

\* C27: a successful ComputeRoute appends exactly one route, for its order,
\* with the distance, duration and geometry the maps API gave it, and returns
\* it; no step changes or removes a route already saved; a ComputeRoute that
\* fails saves none.
ComputeRouteReturns(p) ==
    call[p].pc # "done" /\ call'[p].pc = "done" /\ call'[p].op = "ComputeRoute"
C27_OneRoutePerComputeRoute ==
    [][/\ Len(routes') >= Len(routes)
       /\ SubSeq(routes', 1, Len(routes)) = routes
       /\ \A p \in Procs :
            ComputeRouteReturns(p) =>
               IF call'[p].err = Nil
               THEN /\ Len(routes') = Len(routes) + 1
                    /\ LET r == routes'[Len(routes')] IN
                       /\ r.order = call[p].oid
                       /\ r.distance = call[p].maps.distance
                       /\ r.duration = call[p].maps.duration
                       /\ r.polyline = call[p].maps.polyline
                       /\ \A i \in 1..Len(routes) : routes[i].id # r.id
                       /\ call'[p].retR = r
               ELSE routes' = routes]_vars

C27_Witness ==
    /\ Len(routes) = 2
    /\ routes[1].order = 1 /\ routes[2].order = 1
    /\ routes[1].id # routes[2].id
    /\ \E p \in Procs : call[p].pc = "done" /\ call[p].op = "ComputeRoute"
                         /\ call[p].err = Nil /\ call[p].retR = routes[2]

----------------------------------------------------------------------------
(* Claims about payment and cancellation, under SpecPay *)

\* the collaborator captured this call's charge and the row its update
\* returned is CONFIRMED
Captured(orderID) == \E i \in DOMAIN payments : payments[i].order = orderID
PaidAndConfirmed(c) ==
    /\ c.paid
    /\ c.updated = "CONFIRMED"
    /\ \E i \in DOMAIN payments : payments[i].order = c.oid /\ payments[i].user = c.uid

\* C28: ConfirmAndPay enters AssignOrder only once its payment has succeeded
\* and its update has set the order CONFIRMED; no ConfirmAndPay whose payment
\* failed or was never made is inside AssignOrder.
C28_AssignOnlyAfterPayment ==
    [][\A p \in Procs :
          /\ (call[p].pc = "cp_assign" /\ call'[p] # call[p]) => PaidAndConfirmed(call[p])
          /\ (call'[p].op = "ConfirmAndPay" /\ call'[p].pc \in {"ao_assign", "ao_status"})
                => PaidAndConfirmed(call'[p])]_vars

C28_Witness ==
    \E p \in Procs :
       /\ call[p].op = "ConfirmAndPay" /\ call[p].pc = "done" /\ call[p].err = Nil
       /\ PaidAndConfirmed(call[p])
       /\ orders[call[p].oid].status = "IN_PROGRESS"
       /\ orders[call[p].oid].machine = call[p].retM.id

\* C30: an order becomes CANCELLED only from PENDING_PAYMENT, whatever the
\* interleaving of CancelOrder and ConfirmAndPay, and once every call has
\* returned no order whose payment was captured is CANCELLED.
C30_CancelOnlyWhilePending ==
    [][/\ \A o \in DOMAIN orders :
            (orders'[o].status = "CANCELLED" /\ orders[o].status # "CANCELLED")
               => orders[o].status = StatusPending
       /\ (\A p \in Procs : call'[p].pc \in {"idle", "done"})
            => \A o \in DOMAIN orders :
                  Captured(o)' => orders'[o].status # "CANCELLED"]_vars

----------------------------------------------------------------------------
(* Claims about store failures, under SpecStore *)

StoreOps == {"AssignOrder", "SetMachineStatus", "ComputeRoute", "ReportTracking", "GetTracking"}

\* C29: when a store call of AssignOrder, SetMachineStatus, ComputeRoute,
\* ReportTracking or GetTracking has failed, the operation has returned and
\* what it returned is an error: none goes on or reports success.
C29_StoreFailureReturned ==
    \A p \in Procs :
       (call[p].op \in StoreOps /\ call[p].failed)
          => (call[p].pc = "done" /\ call[p].err # Nil)

C29_Witness ==
    \E p \in Procs :
       /\ call[p].op = "AssignOrder" /\ call[p].failed
       /\ call[p].pc = "done" /\ call[p].err = ErrStatusFailed
       /\ orders[call[p].oid].machine = call[p].m.id
       /\ machines[call[p].m.id].status = StatusIdle

----------------------------------------------------------------------------
(* Claims about payment, under SpecPay *)

ChargesOf(orderID) == {i \in DOMAIN payments : payments[i].order = orderID}

\* C31: whatever the interleaving of ConfirmAndPay calls on one order, the
\* payment collaborator captures at most one charge for that order.
C31_ChargedAtMostOnce ==
    \A o \in DOMAIN orders : Cardinality(ChargesOf(o)) <= 1

\* a step in which ConfirmAndPay returns from the position pc
ConfirmAndPayReturnsFrom(p, pc) ==
    call[p].pc = pc /\ call'[p].pc = "done" /\ call'[p].op = "ConfirmAndPay"

\* C32: until its payment is captured ConfirmAndPay changes no order and no
\* machine; when it fails on the order it read (no such order, another
\* user's order, an order that is not PENDING_PAYMENT) it has not called the
\* payment collaborator, and the order that is not PENDING_PAYMENT is
\* answered ErrOrderCannotBePaid; when the collaborator refuses, nothing is
\* captured and the error is returned.
C32_NothingChangedBeforeCapture ==
    [][\A p \in Procs :
          /\ (call'[p] # call[p] /\ call'[p].op = "ConfirmAndPay"
                /\ call[p].pc \in {"idle", "cp_pay"})
                => UNCHANGED <<orders, machines>>
          /\ ConfirmAndPayReturnsFrom(p, "idle") =>
                LET c == call'[p] IN
                /\ c.err # Nil
                /\ c.payCalls = 0 /\ ~c.paid
                /\ payments' = payments
                /\ c.err.kind # "driver" =>
                      IF c.oid \notin DOMAIN orders \/ orders[c.oid].user # c.uid
                      THEN c.err.kind = ErrNotFound.kind
                      ELSE /\ orders[c.oid].status # StatusPending
                           /\ c.err = ErrOrderCannotBePaid
          /\ ConfirmAndPayReturnsFrom(p, "cp_pay") =>
                LET c == call'[p] IN
                /\ c.err.kind = ErrPayment.kind
                /\ c.payCalls = 1 /\ ~c.paid
                /\ payments' = payments]_vars

C32_Witness ==
    \E p, q \in Procs :
       /\ call[p].op = "ConfirmAndPay" /\ call[p].pc = "done"
       /\ call[p].err = ErrOrderCannotBePaid /\ call[p].payCalls = 0
       /\ orders[call[p].oid].status = "CONFIRMED"
       /\ call[q].op = "ConfirmAndPay" /\ call[q].pc = "done"
       /\ call[q].err.kind = ErrPayment.kind /\ call[q].payCalls = 1
       /\ Len(payments) = 1

\* a step in which ConfirmAndPay returns an error out of AssignOrder
AssignmentFails(p) ==
    /\ call'[p].op = "ConfirmAndPay"
    /\ call[p].pc \in {"cp_assign", "ao_assign", "ao_status"}
    /\ call'[p].pc = "done" /\ call'[p].err # Nil

\* C33: when the assignment step of a paid and confirmed ConfirmAndPay fails,
\* the order is left CONFIRMED with no machine bound and no machine is
\* changed; a later ConfirmAndPay that reads the order CONFIRMED is answered
\* ErrOrderCannotBePaid and charges nothing.
C33_FailedAssignmentLeavesConfirmed ==
    [][\A p \in Procs :
          /\ AssignmentFails(p) =>
                /\ orders'[call[p].oid].status = "CONFIRMED"
                /\ orders'[call[p].oid].machine = NULL
                /\ machines' = machines
          /\ (/\ ConfirmAndPayReturnsFrom(p, "idle")
              /\ call'[p].oid \in DOMAIN orders
              /\ orders[call'[p].oid].user = call'[p].uid
              /\ orders[call'[p].oid].status = "CONFIRMED"
              /\ call'[p].err.kind # "driver")
                => (call'[p].err = ErrOrderCannotBePaid /\ payments' = payments)]_vars

----------------------------------------------------------------------------
(* Claims about the fleet under sequences of AssignOrder and               *)
(* SetMachineStatus, under SpecStore                                       *)

InProgressOn(machineID) ==
    {o \in DOMAIN orders : orders[o].status = "IN_PROGRESS" /\ orders[o].machine = machineID}

\* C34: after any sequence of AssignOrder and SetMachineStatus calls, no
\* machine is bound to more than one IN_PROGRESS order.
C34_OneInProgressOrderPerMachine ==
    \A id \in MachineIds : Cardinality(InProgressOn(id)) <= 1


----------------------------------------------------------------------------
(* Claims about CreateOrder failing while it persists, under SpecQuote *)

PersistSteps == {"co_pickup", "co_dropoff", "co_create"}

\* the call of p ended in a failure of the store after it had found the quote
FailedPersisting(p) ==
    /\ CreateOrderDone(p)
    /\ call[p].err \notin {Nil, ErrRouteOptionExpired}

\* C35: a CreateOrder that found the quote and then fails while inserting an
\* address or creating the order leaves the cache as it was; a CreateOrder
\* that looks up the id of such a failed call while the entry is there goes on
\* with that option; an entry leaves the cache only in the last step of a
\* CreateOrder on that id, after its order has been created.
C35_FailedCreateKeepsQuote ==
    [][\A p \in Procs :
        /\ (call[p].pc \in PersistSteps /\ call'[p].pc = "done")
              => /\ call'[p].err.kind = "driver"
                 /\ routeCache' = routeCache
                 /\ orders' = orders
        /\ \A q \in Procs :
              (/\ FailedPersisting(q)
               /\ call[q].qid \in DOMAIN routeCache
               /\ call[p].pc = "idle" /\ call'[p].op = "CreateOrder"
               /\ call'[p].qid = call[q].qid)
                 => /\ call'[p].pc = "co_pickup"
                    /\ call'[p].opt = routeCache[call[q].qid]
        /\ \A id \in DOMAIN routeCache \ DOMAIN routeCache' :
              \E r \in Procs :
                  /\ call[r].pc = "co_delete" /\ call[r].qid = id
                  /\ call[r].retO \in DOMAIN orders
                  /\ call'[r].pc = "done" /\ call'[r].err = Nil]_vars

\* a call failed after both addresses went in, and a call on the same id
\* whose addresses went in after those created the order
C35_Witness ==
    \E p, q \in Procs :
        /\ FailedPersisting(p) /\ call[p].dropoffID # 0
        /\ CreateOrderDone(q) /\ call[q].err = Nil
        /\ call[q].qid = call[p].qid
        /\ call[q].pickupID > call[p].dropoffID
        /\ call[q].retO \in DOMAIN orders
        /\ call[q].qid \notin DOMAIN routeCache


\* C36: the order a CreateOrder call created by redeeming a quote is stored
\* with the price of that quote as its cost.
C36_StoredCostIsQuotedPrice ==
    \A p \in Procs :
        (CreateOrderDone(p) /\ call[p].err = Nil)
            => orders[call[p].retO].cost = call[p].opt.cost


----------------------------------------------------------------------------
(* Claims about the order handler, under SpecDetails *)

DetailsDone(p) ==
    call[p].pc = "done" /\ call[p].op = "GetOrderDetails" /\ ~call[p].failed

\* C37: when the store answers, a caller who asks for an order of another
\* user gets the same error from the service and the same response from the
\* handler as when asking for an order id that does not exist.
C37_ForeignLooksMissing ==
    \A p, q \in Procs :
        (/\ DetailsDone(p) /\ DetailsDone(q)
         /\ call[p].uid = call[q].uid
         /\ call[p].oid \in DOMAIN orders
         /\ orders[call[p].oid].user # call[p].uid
         /\ call[q].oid \notin DOMAIN orders)
            => /\ call[p].err = call[q].err
               /\ call[p].resp = call[q].resp

=============================================================================
